---- MODULE Spec2Model ----
\* Turn scheduler of tile_rpg (State::tick in src/src/main.rs) with the systems
\* it runs each tick, as a state machine.  One tick is a run of steps from
\* pc = "idle" back to pc = "idle"; each step is one statement of tick() (or one
\* system of run_continuous_systems) and exactly one step is enabled at a time.
\* The effects of the systems of the modules player, monster, fishing, mining,
\* indexing, tile_animation and time are written from the design document and
\* kept in operators of their own, apart from the steps of tick() that call them.
EXTENDS Integers, Sequences, FiniteSets, TLC

VARIABLES
    app_state,      \* the AppState resource of the World
    delta_time,     \* the DeltaTime resource of the World
    ecs,            \* the component storages of the World
    map,            \* the Map resource: the spatial index
    pc,             \* position of the host loop inside State::tick
    current_state,  \* tick(): the AppState read at the start of the tick
    new_state,      \* tick(): local new_state
    response,       \* tick(): what manage_player_input returned in this tick
    finished,       \* tick(): what check_player_activity returned in this tick
    delay_due,      \* tick(): what check_monster_delay returned (FALSE when not called)
    elapsed,        \* tick(): the DeltaTime that check_monster_delay read
    ran,            \* the systems run so far in this tick, in order
    index_built,    \* whether the spatial index was rebuilt in this tick
    committed,      \* the component storages as the previous tick left them
    edb,            \* ENTITY_DB: the being table and the item table
    world,          \* the World that build_being is given
    backpack,       \* a Backpack component: its contents
    added,          \* the add_into_backpack calls made on the backpack, in order
    call,           \* the arguments of a call of a function of components.rs
    ret             \* what the calls made so far returned, in order

\* The state of the functions of data_read and components.rs that tick()
\* does not call.
content == <<edb, world, backpack, added, call, ret>>

vars == <<app_state, delta_time, ecs, map, pc, current_state, new_state,
          response, finished, delay_due, elapsed, ran, index_built, committed, content>>

\* ---------------------------------------------------------------- bounds

\* Number of tiles of the (one row) map; main builds a 40 x 27 map.
MapWidth == 4
\* Largest frame time, in units of the response threshold's clock.
MaxFrameTime == 2
\* Largest number of fishing attempts explored before the fish must bite.
MaxAttempts == 2
\* The damage system taken alone: the largest hp, defense and pending amount
\* and the longest queue of pending amounts it is run on.
MaxHp == 10
MaxDefense == 2
MaxAmount == 5
MaxPending == 2
\* Position taken alone: the largest map width, coordinate and tile index it
\* is called with, and the number of conversions made in a row.
MaxWidth == 3
MaxCoord == 3
MaxIdx == 11
MaxCalls == 2
\* The number of values of a usize, scaled down from 2^64 so that products of
\* two values stay within the model checker's integers.
UsizeModulus == 65536
\* Backpack taken alone: the largest item id and quantity added and the
\* number of add_into_backpack calls made.
MaxItemId == 2
MaxQty == 2
MaxAdds == 3
\* The content tables taken alone: the largest number of beings in the
\* being table.
MaxBeings == 2

\* ------------------------------------------------------------- AppState

InMenu == [kind |-> "InMenu", response_delay |-> 0]
InGame == [kind |-> "InGame", response_delay |-> 0]
ActivityBound(d) == [kind |-> "ActivityBound", response_delay |-> d]
\* AppState::activity_bound(): ActivityBound with zero duration.
activity_bound == ActivityBound(0)

\* --------------------------------------------------------- the entities

PlayerEntity == "player"
MonsterEntity == "monster"
WaterEntity == "water"
RockEntity == "rock"
RodEntity == "rod"
Entities == {PlayerEntity, MonsterEntity, WaterEntity, RockEntity, RodEntity}
Tiles == 0 .. (MapWidth - 1)
ToolType == {"Hand", "Pickaxe", "Axe", "Shovel"}

\* A component storage is a function from the entities that carry the
\* component to its value; a NullStorage (a tag) is a set of entities.
NoStorage == [e \in {} |-> 0]
Has(storage, e) == e \in DOMAIN storage
Insert(storage, e, v) ==
    [x \in (DOMAIN storage) \cup {e} |-> IF x = e THEN v ELSE storage[x]]
Remove(storage, e) == [x \in (DOMAIN storage) \ {e} |-> storage[x]]
Restrict(storage, alive) == [x \in (DOMAIN storage) \cap alive |-> storage[x]]

\* The World as main() builds it: a fishable, blocking water tile, the player
\* with Strength 1, a random walking monster, and one rock of debug_rocks.  The
\* row of tiles is water, player, rock, free tiles, monster.
InitEcs ==
    [ entities         |-> {WaterEntity, PlayerEntity, MonsterEntity, RockEntity},
      deleted          |-> {},
      position         |-> [e \in {WaterEntity, PlayerEntity, MonsterEntity, RockEntity} |->
                              CASE e = WaterEntity   -> 0
                                [] e = PlayerEntity  -> 1
                                [] e = RockEntity    -> 2
                                [] e = MonsterEntity -> MapWidth - 1],
      player           |-> {PlayerEntity},
      blocking         |-> {WaterEntity, PlayerEntity, MonsterEntity, RockEntity},
      fishable         |-> {WaterEntity},
      random_walker_ai |-> {MonsterEntity},
      strength         |-> [e \in {PlayerEntity} |-> 1],
      breakable        |-> [e \in {RockEntity} |-> "Hand"],
      health_stats     |-> [e \in {RockEntity} |-> [hp |-> 2, defense |-> 0]],
      suffer_damage    |-> NoStorage,
      break_action     |-> NoStorage,
      fish_action      |-> NoStorage,
      waiting_for_fish |-> NoStorage,
      fish_on_the_line |-> {},
      finished_activity |-> {},
      delete_condition |-> NoStorage,
      animation_requests |-> {} ]

\* The entities in the order of their ids, the order a join visits them in.
EntityOrder == <<WaterEntity, PlayerEntity, MonsterEntity, RockEntity, RodEntity>>
SeqOf(es) == SelectSeq(EntityOrder, LAMBDA e : e \in es)
Range(q) == {q[i] : i \in DOMAIN q}

\* The Map resource before the first index build: tile_entities is a list of
\* entities for each tile.
EmptyIndex ==
    [ blocked       |-> {},
      breakable     |-> NoStorage,
      fishable      |-> {},
      tile_entities |-> [t \in Tiles |-> <<>>] ]

\* ------------------------------------------------- the indexing systems

\* Entities a join over storages visits: the living ones.
Positioned(w) == (DOMAIN w.position) \cap w.entities
EntitiesAt(w, t) == {e \in Positioned(w) : w.position[e] = t}

\* IndexReset: clears the four structures of the index.
IndexReset(m) == EmptyIndex

\* IndexBlockedTiles: every positioned entity goes into the occupancy of its
\* tile; the tile of a Blocking one is blocked.
IndexBlockedTiles(m, w) ==
    [m EXCEPT !.blocked = m.blocked \cup
                  {w.position[e] : e \in Positioned(w) \cap w.blocking},
              !.tile_entities =
                  [t \in Tiles |-> m.tile_entities[t] \o SeqOf(EntitiesAt(w, t))]]

\* IndexBreakableTiles: the tile of a Breakable entity maps to the tool that
\* breaks it.
IndexBreakableTiles(m, w) ==
    LET here == {e \in Positioned(w) : Has(w.breakable, e)}
        tiles == {w.position[e] : e \in here}
    IN  [m EXCEPT !.breakable =
            [t \in (DOMAIN m.breakable) \cup tiles |->
                IF t \in tiles
                THEN w.breakable[CHOOSE e \in here : w.position[e] = t]
                ELSE m.breakable[t]]]

\* IndexFishableTiles: the tile of a Fishable entity is fishable.
IndexFishableTiles(m, w) ==
    [m EXCEPT !.fishable = m.fishable \cup
                  {w.position[e] : e \in Positioned(w) \cap w.fishable}]

\* The index the four systems build, run in the order of run_continuous_systems.
BuildIndex(w) ==
    IndexFishableTiles(IndexBreakableTiles(IndexBlockedTiles(IndexReset(EmptyIndex), w), w), w)

\* ------------------------------------------- player input and monsters

Keys == {"none", "left", "right", "menu"}
Waiting == [kind |-> "Waiting", state |-> InGame]
TurnAdvance == [kind |-> "TurnAdvance", state |-> InGame]
StateChange(s) == [kind |-> "StateChange", state |-> s]
NoResponse == [kind |-> "None", state |-> InGame]

Target(w, e, key) == w.position[e] + (IF key = "left" THEN -1 ELSE 1)

\* manage_player_input: the PlayerResponse for a key, read against the index as
\* it stands.  A step onto a free tile is a turn; a step into a fishable tile
\* asks for ActivityBound; a step into a breakable tile is a turn spent
\* breaking; the menu key asks for InMenu; anything else is no action.
PlayerResponseFor(w, m, key) ==
    IF key = "menu" THEN StateChange(InMenu)
    ELSE IF key = "none" \/ ~Has(w.position, PlayerEntity) THEN Waiting
    ELSE LET t == Target(w, PlayerEntity, key) IN
         IF t \notin Tiles THEN Waiting
         ELSE IF t \notin m.blocked THEN TurnAdvance
         ELSE IF t \in m.fishable
              THEN IF PlayerEntity \in w.fish_on_the_line
                   THEN TurnAdvance ELSE StateChange(activity_bound)
         ELSE IF \E e \in Range(m.tile_entities[t]) : Has(w.breakable, e) THEN TurnAdvance
         ELSE Waiting

\* manage_player_input: what the key does to the World.
PlayerInputEffect(w, m, key) ==
    IF key \in {"menu", "none"} \/ ~Has(w.position, PlayerEntity) THEN w
    ELSE LET t == Target(w, PlayerEntity, key) IN
         IF t \notin Tiles THEN w
         ELSE IF t \notin m.blocked
              THEN [w EXCEPT !.position = Insert(w.position, PlayerEntity, t)]
         ELSE IF t \in m.fishable
              THEN [w EXCEPT !.fish_action = Insert(w.fish_action, PlayerEntity, t)]
         ELSE IF \E e \in Range(m.tile_entities[t]) : Has(w.breakable, e)
              THEN [w EXCEPT !.break_action =
                       Insert(w.break_action, PlayerEntity,
                              CHOOSE e \in Range(m.tile_entities[t]) : Has(w.breakable, e))]
         ELSE w

\* RandomMonsterMovementSystem: every RandomWalkerAI entity steps one tile in
\* the direction drawn for it when the index does not show the tile blocked.
RandomMonsterMovement(w, m, dir) ==
    LET walkers == Positioned(w) \cap w.random_walker_ai
        goes(e) == w.position[e] + dir \in Tiles /\ w.position[e] + dir \notin m.blocked
    IN  [w EXCEPT !.position =
            [e \in DOMAIN w.position |->
                IF e \in walkers /\ goes(e) THEN w.position[e] + dir ELSE w.position[e]]]

\* --------------------------------------------------- the fishing systems

\* Time a fishing attempt takes, on the clock of the frame times.
AttemptThreshold == 2
NewWaitingForFish(attempts) == [attempts |-> attempts, time_since_last_attempt |-> 0]

\* A join visits its entities one after the other: Pick is the one visited next.
Pick(es) == CHOOSE x \in es : TRUE

\* SetupFishingActions: consumes each FishAction; one aimed at a fishable tile
\* by an entity that is not fishing yet starts the wait and asks for the rod.
\* The fish intent resolved with the fish on the line at once.
SetupFishingOneHooksAtOnce(m, w, e) ==
    LET t == w.fish_action[e]
        consumed == [w EXCEPT !.fish_action = Remove(w.fish_action, e)]
    IN  IF t \in m.fishable /\ ~Has(w.waiting_for_fish, e)
        THEN [consumed EXCEPT
                !.fish_on_the_line = w.fish_on_the_line \cup {e},
                !.finished_activity = w.finished_activity \cup {e}]
        ELSE consumed
SetupFishingOne(m, w, e) ==
    LET t == w.fish_action[e]
        consumed == [w EXCEPT !.fish_action = Remove(w.fish_action, e)]
    IN  IF t \in m.fishable /\ ~Has(w.waiting_for_fish, e)
        THEN [consumed EXCEPT
                !.waiting_for_fish = Insert(w.waiting_for_fish, e, NewWaitingForFish(0)),
                !.animation_requests = w.animation_requests \cup {[at |-> t, owner |-> e]}]
        ELSE consumed
RECURSIVE SetupFishingJoin(_, _, _)
SetupFishingJoin(w, m, es) ==
    IF es = {} THEN w
    ELSE SetupFishingJoin(SetupFishingOne(m, w, Pick(es)), m, es \ {Pick(es)})
SetupFishingActions(w, m) ==
    SetupFishingJoin(w, m, {e \in w.entities : Has(w.fish_action, e)
                                               /\ e \notin w.fish_on_the_line})

\* WaitingForFishSystem: adds the frame time to each wait; a wait that crosses
\* the attempt threshold counts an attempt, and when the fish bites the entity
\* gets FishOnTheLine and the Finished-Activity signal.
WaitingForFishOne(dt, bite, w, e) ==
    LET wait == w.waiting_for_fish[e]
        time == wait.time_since_last_attempt + dt
    IN  IF time < AttemptThreshold
        THEN [w EXCEPT !.waiting_for_fish[e].time_since_last_attempt = time]
        ELSE IF bite
        THEN [w EXCEPT !.waiting_for_fish = Remove(w.waiting_for_fish, e),
                       !.fish_on_the_line = w.fish_on_the_line \cup {e},
                       !.finished_activity = w.finished_activity \cup {e}]
        ELSE [w EXCEPT !.waiting_for_fish[e] = NewWaitingForFish(wait.attempts + 1)]
RECURSIVE WaitingForFishJoin(_, _, _, _)
WaitingForFishJoin(w, dt, bite, es) ==
    IF es = {} THEN w
    ELSE WaitingForFishJoin(WaitingForFishOne(dt, bite, w, Pick(es)), dt, bite,
                            es \ {Pick(es)})
WaitingForFishSystem(w, dt, bite) ==
    WaitingForFishJoin(w, dt, bite, {e \in w.entities : Has(w.waiting_for_fish, e)})

\* CatchFishSystem: a fish intent of an entity with a fish on the line lands the
\* fish; the entity is idle again.
CatchFishSystem(w) ==
    LET catchers == {e \in w.entities : e \in w.fish_on_the_line /\ Has(w.fish_action, e)}
    IN  [w EXCEPT !.fish_on_the_line = w.fish_on_the_line \ catchers,
                  !.fish_action = Restrict(w.fish_action, (DOMAIN w.fish_action) \ catchers)]

\* ---------------------------------------------------- mining and damage

Max(a, b) == IF a > b THEN a ELSE b
RECURSIVE SumSeq(_)
SumSeq(q) == IF q = <<>> THEN 0 ELSE Head(q) + SumSeq(Tail(q))

\* The tool an entity breaks with: none but the hand is modelled.
ToolOf(w, e) == "Hand"

\* TileDestructionSystem: consumes each BreakAction; when the target is
\* Breakable by the tool of the actor, the actor's Strength is queued on the
\* target as pending damage.
\* The break intent resolved without looking at the tool.
TileDestructionOneAnyTool(w, e) ==
    LET target == w.break_action[e]
        consumed == [w EXCEPT !.break_action = Remove(w.break_action, e)]
        pending == IF Has(w.suffer_damage, target) THEN w.suffer_damage[target] ELSE <<>>
    IN  IF target \in w.entities /\ Has(w.breakable, target) /\ Has(w.strength, e)
        THEN [consumed EXCEPT !.suffer_damage =
                 Insert(w.suffer_damage, target, Append(pending, w.strength[e]))]
        ELSE consumed
TileDestructionOne(w, e) ==
    LET target == w.break_action[e]
        consumed == [w EXCEPT !.break_action = Remove(w.break_action, e)]
        pending == IF Has(w.suffer_damage, target) THEN w.suffer_damage[target] ELSE <<>>
    IN  IF target \in w.entities /\ Has(w.breakable, target)
           /\ w.breakable[target] = ToolOf(w, e) /\ Has(w.strength, e)
        THEN [consumed EXCEPT !.suffer_damage =
                 Insert(w.suffer_damage, target, Append(pending, w.strength[e]))]
        ELSE consumed
RECURSIVE TileDestructionJoin(_, _)
TileDestructionJoin(w, es) ==
    IF es = {} THEN w
    ELSE TileDestructionJoin(TileDestructionOne(w, Pick(es)), es \ {Pick(es)})
TileDestructionSystem(w) ==
    TileDestructionJoin(w, {e \in w.entities : Has(w.break_action, e)})

\* DamageSystem: each pending amount less the defense, floored at zero, is
\* taken from the hp, floored at zero; the queue is dropped.
\* The amount less the defense, with no floor.
EffectiveDamageNoFloor(amount, defense) == amount - defense
EffectiveDamage(amount, defense) == Max(0, amount - defense)
DamageOne(w, e) ==
    LET stats == w.health_stats[e]
        q == w.suffer_damage[e]
        total == SumSeq([i \in 1 .. Len(q) |-> EffectiveDamage(q[i], stats.defense)])
    IN  [w EXCEPT !.health_stats[e].hp = Max(0, stats.hp - total)]
RECURSIVE DamageJoin(_, _)
DamageJoin(w, es) ==
    IF es = {} THEN w
    ELSE DamageJoin(DamageOne(w, Pick(es)), es \ {Pick(es)})
DamageSystem(w) ==
    LET hit == DamageJoin(w, {e \in w.entities : Has(w.suffer_damage, e)
                                                  /\ Has(w.health_stats, e)})
    IN  [hit EXCEPT !.suffer_damage = NoStorage]

\* RemoveDeadTiles: an entity whose hp is zero is marked for deletion; the
\* World drops it at the next maintain().
RemoveDeadTiles(w) ==
    [w EXCEPT !.deleted = w.deleted \cup
        {e \in w.entities : Has(w.health_stats, e) /\ w.health_stats[e].hp = 0}]

\* ------------------------------------- tile animations, delete conditions

\* TileAnimationSpawner: builds the requested entities (the fishing rod), each
\* with DeleteCondition::ActivityFinish(owner).
TileAnimationSpawner(w) ==
    IF w.animation_requests = {} THEN w
    ELSE LET r == CHOOSE x \in w.animation_requests : TRUE
         IN  [w EXCEPT !.animation_requests = {},
                       !.entities = w.entities \cup {RodEntity},
                       !.position = Insert(w.position, RodEntity, r.at),
                       !.delete_condition = Insert(w.delete_condition, RodEntity, r.owner)]

\* TileAnimationCleanUpSystem: an entity whose DeleteCondition names an entity
\* that carries FinishedActivity is marked for deletion.
TileAnimationCleanUpSystem(w) ==
    [w EXCEPT !.deleted = w.deleted \cup
        {e \in w.entities : Has(w.delete_condition, e)
                              /\ w.delete_condition[e] \in w.finished_activity}]

\* ------------------------------------------------------- end of a frame

\* run_eof_systems without the clear().
run_eof_systems_keeps(w) == w

\* run_eof_systems: write_storage::<FinishedActivity>().clear().
run_eof_systems(w) == [w EXCEPT !.finished_activity = {}]

\* World::maintain: drops the entities marked for deletion with their components.
maintain(w) ==
    LET alive == w.entities \ w.deleted
    IN  [w EXCEPT
           !.entities = alive,
           !.deleted = {},
           !.position = Restrict(w.position, alive),
           !.blocking = w.blocking \cap alive,
           !.fishable = w.fishable \cap alive,
           !.random_walker_ai = w.random_walker_ai \cap alive,
           !.player = w.player \cap alive,
           !.strength = Restrict(w.strength, alive),
           !.breakable = Restrict(w.breakable, alive),
           !.health_stats = Restrict(w.health_stats, alive),
           !.suffer_damage = Restrict(w.suffer_damage, alive),
           !.break_action = Restrict(w.break_action, alive),
           !.fish_action = Restrict(w.fish_action, alive),
           !.waiting_for_fish = Restrict(w.waiting_for_fish, alive),
           !.fish_on_the_line = w.fish_on_the_line \cap alive,
           !.finished_activity = w.finished_activity \cap alive,
           !.delete_condition = Restrict(w.delete_condition, alive)]

\* check_player_activity: whether a Player entity carries FinishedActivity.
check_player_activity(w) == (w.player \cap w.entities \cap w.finished_activity) # {}

\* Delay after which the monsters respond while the player is bound.
ResponseThreshold == 3
\* check_monster_delay: whether the delay is past the threshold; when it is not,
\* the frame time is added to the delay.
check_monster_delay(delay) == delay > ResponseThreshold
DelayAfterCheck(delay, dt) == IF delay > ResponseThreshold THEN delay ELSE delay + dt

\* ------------------------------------------------------ State::tick

\* run_continuous_systems with the fishing systems run ahead of the indexing.
ContinuousSystemsFishingFirst ==
    << "SetupFishingActions", "IndexReset", "IndexBlockedTiles", "IndexBreakableTiles",
       "IndexFishableTiles", "WaitingForFishSystem", "CatchFishSystem",
       "TileDestructionSystem", "DamageSystem",
       "TileAnimationSpawner", "TileAnimationCleanUpSystem", "RemoveDeadTiles" >>

\* The same systems with the index cleared after the blocking pass.
ContinuousSystemsResetLate ==
    << "IndexBlockedTiles", "IndexReset", "IndexBreakableTiles", "IndexFishableTiles",
       "SetupFishingActions", "WaitingForFishSystem", "CatchFishSystem",
       "TileDestructionSystem", "DamageSystem",
       "TileAnimationSpawner", "TileAnimationCleanUpSystem", "RemoveDeadTiles" >>

\* The same systems without the clearing of the index.
ContinuousSystemsNoReset ==
    << "IndexBlockedTiles", "IndexBreakableTiles", "IndexFishableTiles",
       "SetupFishingActions", "WaitingForFishSystem", "CatchFishSystem",
       "TileDestructionSystem", "DamageSystem",
       "TileAnimationSpawner", "TileAnimationCleanUpSystem", "RemoveDeadTiles" >>

\* The same systems with the damage applied before the break intents are
\* resolved.
ContinuousSystemsDamageFirst ==
    << "IndexReset", "IndexBlockedTiles", "IndexBreakableTiles", "IndexFishableTiles",
       "SetupFishingActions", "WaitingForFishSystem", "CatchFishSystem",
       "DamageSystem", "TileDestructionSystem",
       "TileAnimationSpawner", "TileAnimationCleanUpSystem", "RemoveDeadTiles" >>

\* The same systems with the delete conditions evaluated before the fishing
\* activity is resolved.
ContinuousSystemsCleanUpEarly ==
    << "IndexReset", "IndexBlockedTiles", "IndexBreakableTiles", "IndexFishableTiles",
       "SetupFishingActions", "TileAnimationCleanUpSystem", "WaitingForFishSystem",
       "CatchFishSystem", "TileDestructionSystem", "DamageSystem",
       "TileAnimationSpawner", "RemoveDeadTiles" >>

\* The same systems with the dead tiles removed before the damage is applied.
ContinuousSystemsRemoveDeadEarly ==
    << "IndexReset", "IndexBlockedTiles", "IndexBreakableTiles", "IndexFishableTiles",
       "SetupFishingActions", "WaitingForFishSystem", "CatchFishSystem",
       "TileDestructionSystem", "RemoveDeadTiles", "DamageSystem",
       "TileAnimationSpawner", "TileAnimationCleanUpSystem" >>

\* The same systems without the resolution of the break intents.
ContinuousSystemsNoMining ==
    << "IndexReset", "IndexBlockedTiles", "IndexBreakableTiles", "IndexFishableTiles",
       "SetupFishingActions", "WaitingForFishSystem", "CatchFishSystem",
       "DamageSystem",
       "TileAnimationSpawner", "TileAnimationCleanUpSystem", "RemoveDeadTiles" >>

\* run_continuous_systems: its systems in the order it runs them.
ContinuousSystems ==
    << "IndexReset", "IndexBlockedTiles", "IndexBreakableTiles", "IndexFishableTiles",
       "SetupFishingActions", "WaitingForFishSystem", "CatchFishSystem",
       "TileDestructionSystem", "DamageSystem",
       "TileAnimationSpawner", "TileAnimationCleanUpSystem", "RemoveDeadTiles" >>

PlaceIn(q, x) == CHOOSE i \in 1 .. Len(q) : q[i] = x

\* What tick() runs after run_continuous_systems returns, by the arm it is in.
AfterContinuous(arm) ==
    IF arm = "InGame" THEN "run_eof_systems" ELSE "check_player_activity"

\* The statement after system sys of run_continuous_systems.
NextContinuous(sys, arm) ==
    IF PlaceIn(ContinuousSystems, sys) = Len(ContinuousSystems)
    THEN AfterContinuous(arm)
    ELSE ContinuousSystems[PlaceIn(ContinuousSystems, sys) + 1]

\* What tick() runs after run_response_systems returns, by the arm it is in.
AfterResponse(arm) ==
    IF arm = "InGame" THEN ContinuousSystems[1] ELSE "run_eof_systems"

\* InGame arm: new_state after the match on the PlayerResponse.
NewStateAfterInput(ns, r) == IF r.kind = "StateChange" THEN r.state ELSE ns

\* The match on the PlayerResponse with Waiting treated as a turn.
AfterInputWaitingResponds(r) ==
    IF r.kind \in {"TurnAdvance", "Waiting"} THEN "run_response_systems"
    ELSE "IndexReset"

\* The match on the PlayerResponse with Waiting leaving the tick early.
AfterInputWaitingSkips(r) ==
    IF r.kind = "TurnAdvance" THEN "run_response_systems"
    ELSE IF r.kind = "Waiting" THEN "run_eof_systems"
    ELSE "IndexReset"

\* InGame arm: what runs after the match on the PlayerResponse.
AfterInput(r) ==
    IF r.kind = "TurnAdvance" THEN "run_response_systems" ELSE ContinuousSystems[1]

\* The if / else if / else with the monster delay tested first.
ActivityBoundNextDelayFirst(fin, due, delay) ==
    IF due THEN [kind |-> "ActivityBound", response_delay |-> 0]
    ELSE IF fin THEN InGame
    ELSE ActivityBound(delay)

\* The if / else if / else with the delay kept when the monsters respond.
ActivityBoundNextNoReset(fin, due, delay) ==
    IF fin THEN InGame ELSE ActivityBound(delay)

\* The if / else if / else with the accumulated delay dropped.
ActivityBoundNextDropsDelay(fin, due, delay) ==
    IF fin THEN InGame ELSE [kind |-> "ActivityBound", response_delay |-> 0]

\* The if / else if / else with the activity left when the monsters respond.
ActivityBoundNextDueLeaves(fin, due, delay) ==
    IF fin THEN InGame
    ELSE IF due THEN InGame
    ELSE ActivityBound(delay)

\* ActivityBound arm: the if / else if / else that gives new_state.
ActivityBoundNext(fin, due, delay) ==
    IF fin THEN InGame
    ELSE IF due THEN activity_bound
    ELSE ActivityBound(delay)

\* ActivityBound arm: whether that if / else if / else runs the response systems.
ActivityBoundResponds(fin, due) == ~fin /\ due

\* ------------------------------------------------ Position (components.rs)

\* bracket_terminal's Point: signed coordinates.
PointNew(x, y) == [type |-> "Point", x |-> x, y |-> y]
\* Position::new: unsigned coordinates.
PositionNew(x, y) == [type |-> "Position", x |-> x, y |-> y]
\* A linear tile index.
TileIdx(i) == [type |-> "idx", i |-> i]

\* `v as usize` of an i32: a negative value wraps round, nothing panics.
AsUsize(v) == v % UsizeModulus

\* impl From<Point> for Position.
PositionFrom(value) == PositionNew(AsUsize(value.x), AsUsize(value.y))

\* indexing::idx_to_point: column and row of a linear index.
idx_to_point(idx, width) == PointNew(idx % width, idx \div width)

\* Position::from_idx.
from_idx(idx, width) == PositionFrom(idx_to_point(idx, width))

\* The index taken column by column.
to_idx_by_column(p, width) == (p.x * width + p.y) % UsizeModulus
\* Position::to_idx.
to_idx(p, width) == (p.y * width + p.x) % UsizeModulus

\* The values a conversion is started on: positions, indices and points, a
\* point also with a negative coordinate.
PositionCalls ==
    {[fn |-> "Position", width |-> w, value |-> v] :
        w \in 1 .. MaxWidth,
        v \in {PositionNew(x, y) : x \in 0 .. MaxCoord, y \in 0 .. MaxCoord}
              \cup {TileIdx(i) : i \in 0 .. MaxIdx}
              \cup {PointNew(x, y) : x \in (0 - 1) .. MaxCoord, y \in (0 - 1) .. MaxCoord}}

\* No call of these functions is under way.
NoCall == [fn |-> "none", width |-> 1, value |-> TileIdx(0)]

\* The value the next conversion is applied to: the last result, or the
\* value the call started on.
LastValue == IF ret = <<>> THEN call.value ELSE ret[Len(ret)]

\* ------------------------------------------------ Backpack (components.rs)

ItemIds == 1 .. MaxItemId

\* items::ItemQty: a quantity, made from a number and added to.
ItemQtyNew(qty) == qty
ItemQtyAdd(held, qty) == (held + qty) % UsizeModulus

\* The entry of an id that is held replaced by the quantity added.
add_into_backpack_overwrites(contents, item_id, qty) ==
    [id \in DOMAIN contents \cup {item_id} |->
        IF id = item_id THEN ItemQtyNew(qty) ELSE contents[id]]
\* Backpack::add_into_backpack: the contents after the call (it returns true).
add_into_backpack(contents, item_id, qty) ==
    [id \in DOMAIN contents \cup {item_id} |->
        IF id # item_id THEN contents[id]
        ELSE IF item_id \in DOMAIN contents THEN ItemQtyAdd(contents[item_id], qty)
        ELSE ItemQtyNew(qty)]

\* Backpack::contains.
contains(contents, item_id) ==
    IF item_id \in DOMAIN contents THEN contents[item_id] > 0 ELSE FALSE

\* Backpack::len.
len(contents) == Cardinality(DOMAIN contents)

\* ------------------------------------- content tables (data_read, ENTITY_DB)

\* Option<T>.
None == [some |-> FALSE]
Some(v) == [some |-> TRUE, v |-> v]

\* What a call gives: Ok(entity), Err(EntityBuildError), a bool, or a panic.
Ok(entity) == [kind |-> "Ok", entity |-> entity]
Err == [kind |-> "Err"]
Returned(b) == [kind |-> "bool", value |-> b]
Panic == [kind |-> "panic"]

\* The beings a table may define: two names, each with no ai, the random
\* walk, the goal ai with goals, the goal ai without goals, or an ai that
\* build_being does not know.
BeingNames == {"Bahhhby", "Greg"}
AiCases ==
    { [ai |-> None, goals |-> None],
      [ai |-> Some("random_walk"), goals |-> None],
      [ai |-> Some("goal"), goals |-> Some(<<"fish">>)],
      [ai |-> Some("goal"), goals |-> None],
      [ai |-> Some("wander"), goals |-> None] }
BeingDefs ==
    {[name |-> n, monster |-> IF n = "Bahhhby" THEN Some("sheep") ELSE None,
      is_blocking |-> (n = "Bahhhby"), ai |-> a.ai, goals |-> a.goals,
      atlas_index |-> IF n = "Bahhhby" THEN 16 ELSE 2,
      strength |-> IF n = "Greg" THEN Some(1) ELSE None,
      health_stats |-> None] : n \in BeingNames, a \in AiCases}
BeingTables == UNION {[1 .. n -> BeingDefs] : n \in 0 .. MaxBeings}

\* The items a table may define, and the tables: one per set of item ids,
\* the ids in order.
ItemNames == <<"rod", "fish", "axe", "ore">>
ItemInfo(id) == [identifier |-> id, name |-> ItemNames[id]]
ItemTables ==
    {[i \in 1 .. Cardinality(ids) |->
         ItemInfo(CHOOSE id \in ids : Cardinality({j \in ids : j < id}) = i - 1)]
     : ids \in SUBSET ItemIds}

\* BeingDatabase::get_by_name, ItemDatabase::get_by_name: the first entry of
\* the table with the name, if any.
get_by_name(data, name) ==
    IF \E i \in DOMAIN data : data[i].name = name
    THEN Some(data[CHOOSE i \in DOMAIN data :
                     /\ data[i].name = name
                     /\ \A j \in DOMAIN data : data[j].name = name => i <= j])
    ELSE None

\* ItemDatabase::get_by_name_unchecked: unwrap() of the entry found; a name
\* that is not in the table panics.
get_by_name_unchecked(data, name) ==
    IF get_by_name(data, name).some THEN Returned(get_by_name(data, name).v) ELSE Panic

\* Backpack::contains_named: what the call gives.
contains_named(contents, items, name) ==
    LET info == get_by_name_unchecked(items, name)
    IN  IF info.kind = "panic" THEN Panic ELSE Returned(contains(contents, info.value.identifier))

\* The being asks for the goal ai and defines no goals.
GoalAiWithoutGoals(raw) == raw.ai.some /\ raw.ai.v = "goal" /\ ~raw.goals.some

\* The ai component build_being attaches: RandomWalkerAI, GoalMoverAI with the
\* goals, or none.
AiComponent(raw) ==
    IF ~raw.ai.some THEN None
    ELSE IF raw.ai.v = "random_walk" THEN Some("RandomWalkerAI")
    ELSE IF raw.ai.v = "goal" THEN Some([goal_mover |-> raw.goals.v])
    ELSE None

\* The entity build_being creates from the being raw at pos, with the
\* components attached before the ai is looked at.
BuiltEntity(w, raw, pos) ==
    [ id         |-> w.next_id,
      name       |-> Some(raw.name),
      position   |-> Some(pos),
      renderable |-> Some([atlas_index |-> raw.atlas_index]),
      monster    |-> raw.monster.some,
      blocking   |-> raw.is_blocking,
      strength   |-> raw.strength,
      ai         |-> None,
      health_stats |-> None ]

\* The World with one more entity.
WithEntity(w, e) == [entities |-> w.entities \cup {e}, next_id |-> w.next_id + 1]

\* build_being: what it returns and the World it leaves.  A being with the
\* goal ai and no goals panics with the entity half built: the World keeps
\* it or not (kept) as the builder is dropped.
build_being(beings, name, pos, w, kept) ==
    LET raw == get_by_name(beings, name)
    IN  IF ~raw.some THEN [ret |-> Err, world |-> w]
        ELSE IF GoalAiWithoutGoals(raw.v)
        THEN [ret |-> Panic,
              world |-> IF kept THEN WithEntity(w, BuiltEntity(w, raw.v, pos))
                        ELSE [w EXCEPT !.next_id = w.next_id + 1]]
        ELSE [ret |-> Ok(w.next_id),
              world |-> WithEntity(w, [BuiltEntity(w, raw.v, pos) EXCEPT
                           !.ai = AiComponent(raw.v),
                           !.health_stats = raw.v.health_stats])]

\* ------------------------------------------------------- state at rest

\* BeingDatabase::empty and ItemDatabase::empty: ENTITY_DB before a load.
EmptyEdb == [beings |-> <<>>, items |-> <<>>]
\* World::new: no entity, the first entity id free.
WorldNew == [entities |-> {}, next_id |-> 0]
\* Backpack::empty.
BackpackEmpty == [id \in {} |-> 0]

\* Nothing of the content functions is in use.
ContentAtRest ==
    /\ edb = EmptyEdb
    /\ world = WorldNew
    /\ backpack = BackpackEmpty
    /\ added = <<>>
    /\ call = NoCall
    /\ ret = <<>>

\* The tools the rock that debug_rocks places may be breakable by: the hand
\* the player breaks with, or an axe the player does not have.
RockTools == {"Hand", "Axe"}

Init ==
    /\ app_state = InGame
    /\ delta_time = 0
    /\ \E by \in RockTools : ecs = [InitEcs EXCEPT !.breakable[RockEntity] = by]
    /\ map = EmptyIndex
    /\ pc = "idle"
    /\ current_state = InGame
    /\ new_state = InGame
    /\ response = NoResponse
    /\ finished = FALSE
    /\ delay_due = FALSE
    /\ elapsed = 0
    /\ ran = <<>>
    /\ index_built = FALSE
    /\ committed = ecs
    /\ ContentAtRest

\* The scheduler before its first tick, the rock breakable by hand.
SchedulerAtRest ==
    /\ app_state = InGame
    /\ delta_time = 0
    /\ ecs = InitEcs
    /\ map = EmptyIndex
    /\ pc = "idle"
    /\ current_state = InGame
    /\ new_state = InGame
    /\ response = NoResponse
    /\ finished = FALSE
    /\ delay_due = FALSE
    /\ elapsed = 0
    /\ ran = <<>>
    /\ index_built = FALSE
    /\ committed = InitEcs

\* A step of tick() that runs sys and goes on to the statement next.
Ran(sys, next) ==
    /\ pc = sys
    /\ pc' = next
    /\ ran' = Append(ran, sys)

\* tick(): reads the AppState resource into new_state.
TickBegin ==
    /\ pc = "idle"
    /\ pc' = "match"
    /\ current_state' = app_state
    /\ new_state' = app_state
    /\ ran' = <<>>
    /\ index_built' = FALSE
    /\ committed' = ecs
    /\ UNCHANGED <<content, app_state, delta_time, ecs, map, response, finished, delay_due, elapsed>>

\* The InMenu arm run as the InGame arm.
MatchInMenuPlays ==
    /\ pc = "match"
    /\ new_state.kind = "InMenu"
    /\ pc' = "manage_player_input"
    /\ UNCHANGED <<content, app_state, delta_time, ecs, map, current_state, new_state, response,
                   finished, delay_due, elapsed, ran, index_built, committed>>

\* AppState::InMenu => todo!(): the tick panics.
MatchInMenu ==
    /\ pc = "match"
    /\ new_state.kind = "InMenu"
    /\ pc' = "panicked"
    /\ UNCHANGED <<content, app_state, delta_time, ecs, map, current_state, new_state, response,
                   finished, delay_due, elapsed, ran, index_built, committed>>

MatchInGame ==
    /\ pc = "match"
    /\ new_state.kind = "InGame"
    /\ pc' = "manage_player_input"
    /\ UNCHANGED <<content, app_state, delta_time, ecs, map, current_state, new_state, response,
                   finished, delay_due, elapsed, ran, index_built, committed>>

MatchActivityBound ==
    /\ pc = "match"
    /\ new_state.kind = "ActivityBound"
    /\ pc' = ContinuousSystems[1]
    /\ UNCHANGED <<content, app_state, delta_time, ecs, map, current_state, new_state, response,
                   finished, delay_due, elapsed, ran, index_built, committed>>

\* The match on manage_player_input with a StateChange written to the resource
\* at once.
ManagePlayerInputWritesState ==
    \E key \in Keys :
        /\ response' = PlayerResponseFor(ecs, map, key)
        /\ ecs' = PlayerInputEffect(ecs, map, key)
        /\ new_state' = NewStateAfterInput(new_state, response')
        /\ app_state' = new_state'
        /\ Ran("manage_player_input", AfterInput(response'))
        /\ UNCHANGED <<content, delta_time, map, current_state, finished, delay_due,
                       elapsed, index_built, committed>>

\* InGame arm: match manage_player_input(self, ctx).
ManagePlayerInput ==
    \E key \in Keys :
        /\ response' = PlayerResponseFor(ecs, map, key)
        /\ ecs' = PlayerInputEffect(ecs, map, key)
        /\ new_state' = NewStateAfterInput(new_state, response')
        /\ Ran("manage_player_input", AfterInput(response'))
        /\ UNCHANGED <<content, app_state, delta_time, map, current_state, finished, delay_due,
                       elapsed, index_built, committed>>

\* run_response_systems, from either arm.
RunResponseSystems ==
    \E dir \in {-1, 1} :
        /\ ecs' = RandomMonsterMovement(ecs, map, dir)
        /\ Ran("run_response_systems", AfterResponse(current_state.kind))
        /\ UNCHANGED <<content, app_state, delta_time, map, current_state, new_state, response,
                       finished, delay_due, elapsed, index_built, committed>>

\* run_continuous_systems: one step for each system it runs.
IndexResetStep ==
    /\ map' = IndexReset(map)
    /\ Ran("IndexReset", NextContinuous("IndexReset", current_state.kind))
    /\ UNCHANGED index_built
    /\ UNCHANGED <<content, ecs, app_state, delta_time, current_state, new_state, response, finished, delay_due, elapsed, committed>>

IndexBlockedTilesStep ==
    /\ map' = IndexBlockedTiles(map, ecs)
    /\ Ran("IndexBlockedTiles", NextContinuous("IndexBlockedTiles", current_state.kind))
    /\ UNCHANGED index_built
    /\ UNCHANGED <<content, ecs, app_state, delta_time, current_state, new_state, response, finished, delay_due, elapsed, committed>>

IndexBreakableTilesStep ==
    /\ map' = IndexBreakableTiles(map, ecs)
    /\ Ran("IndexBreakableTiles", NextContinuous("IndexBreakableTiles", current_state.kind))
    /\ UNCHANGED index_built
    /\ UNCHANGED <<content, ecs, app_state, delta_time, current_state, new_state, response, finished, delay_due, elapsed, committed>>

IndexFishableTilesStep ==
    /\ map' = IndexFishableTiles(map, ecs)
    /\ Ran("IndexFishableTiles", NextContinuous("IndexFishableTiles", current_state.kind))
    /\ index_built' = TRUE
    /\ UNCHANGED <<content, ecs, app_state, delta_time, current_state, new_state, response, finished, delay_due, elapsed, committed>>

SetupFishingActionsStep ==
    /\ ecs' = SetupFishingActions(ecs, map)
    /\ Ran("SetupFishingActions", NextContinuous("SetupFishingActions", current_state.kind))
    /\ UNCHANGED <<content, map, index_built, app_state, delta_time, current_state, new_state, response, finished, delay_due, elapsed, committed>>

\* The fish may fail to bite only while the attempts stay within MaxAttempts.
MayFail(w) ==
    \A e \in DOMAIN w.waiting_for_fish : w.waiting_for_fish[e].attempts < MaxAttempts

WaitingForFishSystemStep ==
    \E bite \in BOOLEAN :
        /\ bite \/ MayFail(ecs)
        /\ ecs' = WaitingForFishSystem(ecs, delta_time, bite)
        /\ Ran("WaitingForFishSystem", NextContinuous("WaitingForFishSystem", current_state.kind))
        /\ UNCHANGED <<content, map, index_built, app_state, delta_time, current_state, new_state, response, finished, delay_due, elapsed, committed>>

CatchFishSystemStep ==
    /\ ecs' = CatchFishSystem(ecs)
    /\ Ran("CatchFishSystem", NextContinuous("CatchFishSystem", current_state.kind))
    /\ UNCHANGED <<content, map, index_built, app_state, delta_time, current_state, new_state, response, finished, delay_due, elapsed, committed>>

TileDestructionSystemStep ==
    /\ ecs' = TileDestructionSystem(ecs)
    /\ Ran("TileDestructionSystem", NextContinuous("TileDestructionSystem", current_state.kind))
    /\ UNCHANGED <<content, map, index_built, app_state, delta_time, current_state, new_state, response, finished, delay_due, elapsed, committed>>

DamageSystemStep ==
    /\ ecs' = DamageSystem(ecs)
    /\ Ran("DamageSystem", NextContinuous("DamageSystem", current_state.kind))
    /\ UNCHANGED <<content, map, index_built, app_state, delta_time, current_state, new_state, response, finished, delay_due, elapsed, committed>>

TileAnimationSpawnerStep ==
    /\ ecs' = TileAnimationSpawner(ecs)
    /\ Ran("TileAnimationSpawner", NextContinuous("TileAnimationSpawner", current_state.kind))
    /\ UNCHANGED <<content, map, index_built, app_state, delta_time, current_state, new_state, response, finished, delay_due, elapsed, committed>>

TileAnimationCleanUpSystemStep ==
    /\ ecs' = TileAnimationCleanUpSystem(ecs)
    /\ Ran("TileAnimationCleanUpSystem", NextContinuous("TileAnimationCleanUpSystem", current_state.kind))
    /\ UNCHANGED <<content, map, index_built, app_state, delta_time, current_state, new_state, response, finished, delay_due, elapsed, committed>>

RemoveDeadTilesStep ==
    /\ ecs' = RemoveDeadTiles(ecs)
    /\ Ran("RemoveDeadTiles", NextContinuous("RemoveDeadTiles", current_state.kind))
    /\ UNCHANGED <<content, map, index_built, app_state, delta_time, current_state, new_state, response, finished, delay_due, elapsed, committed>>

\* ActivityBound arm: check_player_activity, else check_monster_delay, else keep
\* the delay that check_monster_delay added the frame time to.
CheckActivity ==
    LET fin == check_player_activity(ecs)
        due == check_monster_delay(current_state.response_delay)
        delay == DelayAfterCheck(current_state.response_delay, delta_time)
    IN  /\ finished' = fin
        /\ delay_due' = (~fin /\ due)
        /\ elapsed' = IF fin THEN elapsed ELSE delta_time
        /\ new_state' = ActivityBoundNext(fin, due, delay)
        /\ pc = "check_player_activity"
        /\ pc' = IF ActivityBoundResponds(fin, due)
                 THEN "run_response_systems" ELSE "run_eof_systems"
        /\ ran' = Append(ran, "check_player_activity")
        /\ UNCHANGED <<content, app_state, delta_time, ecs, map, current_state, response,
                       index_built, committed>>

\* self.run_eof_systems().
RunEofSystems ==
    /\ ecs' = run_eof_systems(ecs)
    /\ Ran("run_eof_systems", "delta_time_update")
    /\ UNCHANGED <<content, app_state, delta_time, map, current_state, new_state, response,
                   finished, delay_due, elapsed, index_built, committed>>

\* delta_time_update: the DeltaTime resource takes the frame time of the host.
DeltaTimeUpdate ==
    \E frame_time \in 1 .. MaxFrameTime :
        /\ delta_time' = frame_time
        /\ Ran("delta_time_update", "maintain")
        /\ UNCHANGED <<content, app_state, ecs, map, current_state, new_state, response,
                       finished, delay_due, elapsed, index_built, committed>>

\* self.ecs.maintain().
\* The statement without its effect: the World keeps the entities marked
\* for deletion.
MaintainKeepsDeleted ==
    /\ ecs' = ecs
    /\ Ran("maintain", "draw")
    /\ UNCHANGED <<content, app_state, delta_time, map, current_state, new_state, response,
                   finished, delay_due, elapsed, index_built, committed>>

Maintain ==
    /\ ecs' = maintain(ecs)
    /\ Ran("maintain", "draw")
    /\ UNCHANGED <<content, app_state, delta_time, map, current_state, new_state, response,
                   finished, delay_due, elapsed, index_built, committed>>

\* draw_ui and draw_sprite_layers: read the World, change nothing of it.
Draw ==
    /\ Ran("draw", "write_state")
    /\ UNCHANGED <<content, app_state, delta_time, ecs, map, current_state, new_state, response,
                   finished, delay_due, elapsed, index_built, committed>>

\* *state_writer = new_state: the AppState resource is overwritten.
WriteState ==
    /\ app_state' = new_state
    /\ Ran("write_state", "return")
    /\ UNCHANGED <<content, delta_time, ecs, map, current_state, new_state, response,
                   finished, delay_due, elapsed, index_built, committed>>

\* tick() returns to the host loop; its locals are gone.
Return ==
    /\ pc = "return"
    /\ pc' = "idle"
    /\ current_state' = InGame
    /\ new_state' = InGame
    /\ response' = NoResponse
    /\ finished' = FALSE
    /\ delay_due' = FALSE
    /\ elapsed' = 0
    /\ ran' = <<>>
    /\ index_built' = FALSE
    /\ committed' = ecs
    /\ UNCHANGED <<content, app_state, delta_time, ecs, map>>

Next ==
    \/ TickBegin
    \/ MatchInMenu
    \/ MatchInGame
    \/ MatchActivityBound
    \/ ManagePlayerInput
    \/ RunResponseSystems
    \/ IndexResetStep
    \/ IndexBlockedTilesStep
    \/ IndexBreakableTilesStep
    \/ IndexFishableTilesStep
    \/ SetupFishingActionsStep
    \/ WaitingForFishSystemStep
    \/ CatchFishSystemStep
    \/ TileDestructionSystemStep
    \/ DamageSystemStep
    \/ TileAnimationSpawnerStep
    \/ TileAnimationCleanUpSystemStep
    \/ RemoveDeadTilesStep
    \/ CheckActivity
    \/ RunEofSystems
    \/ DeltaTimeUpdate
    \/ Maintain
    \/ Draw
    \/ WriteState
    \/ Return

Spec == Init /\ [][Next]_vars

\* The damage system on its own: a tick stands before DamageSystem with one
\* entity that has HealthStats (hp and defense are usize) and a SufferDamage
\* queue (amounts are i32, so an amount may be negative).
PendingAmounts == (0 - 1) .. MaxAmount
PendingQueues == UNION {[1 .. n -> PendingAmounts] : n \in 0 .. MaxPending}
InitDamage ==
    /\ \E hp \in 0 .. MaxHp, defense \in 0 .. MaxDefense, q \in PendingQueues :
          ecs = [InitEcs EXCEPT
                    !.health_stats = [e \in {RockEntity} |-> [hp |-> hp, defense |-> defense]],
                    !.suffer_damage = [e \in {RockEntity} |-> q]]
    /\ committed = ecs
    /\ app_state = InGame
    /\ delta_time = 0
    /\ map = BuildIndex(InitEcs)
    /\ pc = "DamageSystem"
    /\ current_state = InGame
    /\ new_state = InGame
    /\ response = Waiting
    /\ finished = FALSE
    /\ delay_due = FALSE
    /\ elapsed = 0
    /\ ran = <<>>
    /\ index_built = TRUE
    /\ ContentAtRest
NextDamage == DamageSystemStep
SpecDamage == InitDamage /\ [][NextDamage]_vars

\* The variables of the scheduler.
scheduler == <<app_state, delta_time, ecs, map, pc, current_state, new_state,
               response, finished, delay_due, elapsed, ran, index_built, committed>>

\* Position on its own: a call starts on a position, an index or a point and
\* the conversions that apply to the last value are made one after another.
InitPosition ==
    /\ SchedulerAtRest
    /\ edb = EmptyEdb
    /\ world = WorldNew
    /\ backpack = BackpackEmpty
    /\ added = <<>>
    /\ call \in PositionCalls
    /\ ret = <<>>

\* p.to_idx(width)
ToIdx ==
    /\ Len(ret) < MaxCalls
    /\ LastValue.type = "Position"
    /\ ret' = Append(ret, TileIdx(to_idx(LastValue, call.width)))
    /\ UNCHANGED <<scheduler, edb, world, backpack, added, call>>

\* Position::from_idx(idx, width)
FromIdx ==
    /\ Len(ret) < MaxCalls
    /\ LastValue.type = "idx"
    /\ ret' = Append(ret, from_idx(LastValue.i, call.width))
    /\ UNCHANGED <<scheduler, edb, world, backpack, added, call>>

\* Position::from(point)
FromPoint ==
    /\ Len(ret) < MaxCalls
    /\ LastValue.type = "Point"
    /\ ret' = Append(ret, PositionFrom(LastValue))
    /\ UNCHANGED <<scheduler, edb, world, backpack, added, call>>

NextPosition ==
    \/ ToIdx
    \/ FromIdx
    \/ FromPoint
SpecPosition == InitPosition /\ [][NextPosition]_vars

\* Backpack on its own: add_into_backpack called on Backpack::empty() some
\* times, each call with an item id and a quantity.
InitBackpack ==
    /\ SchedulerAtRest
    /\ ContentAtRest

AddIntoBackpack ==
    \E item_id \in ItemIds, qty \in 0 .. MaxQty :
        /\ Len(added) < MaxAdds
        /\ backpack' = add_into_backpack(backpack, item_id, qty)
        /\ added' = Append(added, [item_id |-> item_id, qty |-> qty])
        /\ ret' = Append(ret, TRUE)
        /\ UNCHANGED <<scheduler, edb, world, call>>

NextBackpack == AddIntoBackpack
SpecBackpack == InitBackpack /\ [][NextBackpack]_vars

\* The names a being or an item is asked for by: those the tables may
\* define and one that no table defines.
BeingLookups == BeingNames \cup {"Nobody"}
ItemLookups == {ItemNames[id] : id \in ItemIds} \cup {"nothing"}
\* The positions a being is built at.
BuildPositions == {PositionNew(0, 0), PositionNew(1, 2)}
\* A World that holds one entity already.
WorldWithPlayer ==
    WithEntity(WorldNew,
        [ id |-> 0, name |-> None, position |-> Some(PositionNew(1, 1)),
          renderable |-> Some([atlas_index |-> 2]), monster |-> FALSE,
          blocking |-> TRUE, strength |-> Some(1), ai |-> None, health_stats |-> None ])

\* The content functions on their own: ENTITY_DB holds some being table and
\* item table, the World is new or holds one entity, the backpack holds item
\* 1 once and item 2 zero times; one call is made.
InitContent ==
    /\ SchedulerAtRest
    /\ \E beings \in BeingTables, items \in ItemTables :
          edb = [beings |-> beings, items |-> items]
    /\ world \in {WorldNew, WorldWithPlayer}
    /\ backpack = add_into_backpack(add_into_backpack(BackpackEmpty, 1, 1), 2, 0)
    /\ added = <<>>
    /\ call = NoCall
    /\ ret = <<>>

\* build_being(name, pos, &mut world)
BuildBeing ==
    \E name \in BeingLookups, pos \in BuildPositions, kept \in BOOLEAN :
        LET built == build_being(edb.beings, name, pos, world, kept)
        IN  /\ call.fn = "none"
            /\ call' = [fn |-> "build_being", name |-> name, pos |-> pos, world |-> world]
            /\ ret' = <<built.ret>>
            /\ world' = built.world
            /\ UNCHANGED <<scheduler, edb, backpack, added>>

\* backpack.contains_named(&name)
ContainsNamed ==
    \E name \in ItemLookups :
        /\ call.fn = "none"
        /\ call' = [fn |-> "contains_named", name |-> name]
        /\ ret' = <<contains_named(backpack, edb.items, name)>>
        /\ UNCHANGED <<scheduler, edb, world, backpack, added>>

NextContent ==
    \/ BuildBeing
    \/ ContainsNamed
SpecContent == InitContent /\ [][NextContent]_vars

\* Type invariant of the scheduler's state.
TypeOK ==
    /\ app_state.kind \in {"InMenu", "InGame", "ActivityBound"}
    /\ app_state.response_delay \in 0 .. (ResponseThreshold + MaxFrameTime)
    /\ delta_time \in 0 .. MaxFrameTime
    /\ ecs.entities \subseteq Entities
    /\ map.blocked \subseteq Tiles

\* ------------------------------------------------------------ properties

Count(q, x) == Cardinality({i \in DOMAIN q : q[i] = x})
RanSet == {ran[i] : i \in DOMAIN ran}
\* The tick has run to its last statement: the AppState resource is written.
TickEnd == pc = "return"
ContinuousSet == {ContinuousSystems[i] : i \in DOMAIN ContinuousSystems}

\* C1: a tick that starts in ActivityBound and finds the player's activity
\* finished stores InGame and does not run the response systems, whatever the
\* accumulated delay.
C1_FinishedWinsOverDelay ==
    (TickEnd /\ current_state.kind = "ActivityBound" /\ finished)
        => (app_state = InGame /\ "run_response_systems" \notin RanSet)

\* C1 witness: a tick finished by the player with the delay past the threshold.
C1_Witness ==
    /\ TickEnd /\ current_state.kind = "ActivityBound" /\ finished
    /\ current_state.response_delay > ResponseThreshold

\* C2: a tick that starts in ActivityBound with the delay past the threshold
\* and no finish of the player runs the response systems exactly once, stores
\* a zero delay and stays ActivityBound.
C2_DelayDueRespondsOnce ==
    (TickEnd /\ current_state.kind = "ActivityBound" /\ ~finished
       /\ (delay_due \/ current_state.response_delay > ResponseThreshold))
        => /\ Count(ran, "run_response_systems") = 1
           /\ app_state = ActivityBound(0)

\* C2 witness: such a tick, with the delay past the threshold at its start.
C2_Witness ==
    /\ TickEnd /\ current_state.kind = "ActivityBound" /\ ~finished /\ delay_due
    /\ current_state.response_delay > ResponseThreshold

\* C3: a tick that starts in ActivityBound, with the player not finished and
\* the delay not past the threshold, runs no response system, stays
\* ActivityBound and stores the delay it read plus the elapsed time.
C3_DelayAccumulates ==
    (TickEnd /\ current_state.kind = "ActivityBound" /\ ~finished /\ ~delay_due)
        => /\ "run_response_systems" \notin RanSet
           /\ app_state = ActivityBound(current_state.response_delay + elapsed)
           /\ app_state.response_delay >= current_state.response_delay

\* C3 witness: such a tick adding a positive frame time to a positive delay.
C3_Witness ==
    /\ TickEnd /\ current_state.kind = "ActivityBound" /\ ~finished /\ ~delay_due
    /\ current_state.response_delay > 0 /\ elapsed > 0
    /\ app_state.response_delay > current_state.response_delay

\* C4: an InGame tick whose input is Waiting stays InGame and runs no response
\* system; one whose input is TurnAdvance runs them exactly once and stays
\* InGame.
C4_WaitingSkipsTurnAdvanceRuns ==
    (TickEnd /\ current_state.kind = "InGame")
        => /\ response.kind = "Waiting"
                => (app_state = InGame /\ Count(ran, "run_response_systems") = 0)
           /\ response.kind = "TurnAdvance"
                => (app_state = InGame /\ Count(ran, "run_response_systems") = 1)

\* C4 witness: an InGame tick that advanced the turn and moved the player.
C4_Witness ==
    /\ TickEnd /\ current_state.kind = "InGame" /\ response.kind = "TurnAdvance"
    /\ ecs.position[PlayerEntity] # committed.position[PlayerEntity]

\* The statements of the InGame arm and of the end of tick().
InGameArm ==
    {"manage_player_input", "run_response_systems", "run_eof_systems",
     "delta_time_update", "maintain", "draw", "write_state"} \cup ContinuousSet

\* C5: after a StateChange(S) in an InGame tick the tick goes on in the InGame
\* arm with InGame still stored; S is stored by the last statement only.
C5_StateChangeTakesEffectNextTick ==
    (current_state.kind = "InGame" /\ response.kind = "StateChange")
        => /\ pc \in InGameArm \cup {"return"}
           /\ RanSet \subseteq InGameArm
           /\ pc # "return" => app_state = InGame
           /\ pc = "return" =>
                 /\ app_state = response.state
                 /\ ContinuousSet \cup {"run_eof_systems"} \subseteq RanSet

\* C5 witness: the end of an InGame tick that asked for ActivityBound.
C5_Witness ==
    /\ TickEnd /\ current_state.kind = "InGame" /\ response.kind = "StateChange"
    /\ app_state = activity_bound

\* What every tick is said to run.
EveryTickRuns == ContinuousSet \cup {"run_eof_systems", "delta_time_update"}

\* C6 as claimed: every tick, InMenu ticks included, runs the continuous
\* systems, the end-of-frame cleanup and the elapsed-time update.
C6_Claimed ==
    (pc \in {"return", "panicked"}) => EveryTickRuns \subseteq RanSet

\* C6: every tick that starts in InGame or ActivityBound runs the continuous
\* systems, the end-of-frame cleanup and the elapsed-time update before it
\* ends; a tick that starts in InMenu panics having run none of them.
C6_EveryImplementedTickRuns ==
    /\ TickEnd => /\ current_state.kind \in {"InGame", "ActivityBound"}
                  /\ EveryTickRuns \subseteq RanSet
                  /\ \A x \in EveryTickRuns : Count(ran, x) = 1
    /\ pc = "panicked" => (current_state.kind = "InMenu" /\ ran = <<>>)

\* C6 witness: the end of an InGame tick in which the player did nothing.
C6_Witness ==
    TickEnd /\ current_state.kind = "InGame" /\ response.kind = "Waiting"

\* C7: between the end-of-frame cleanup of a tick and the first system of the
\* next no entity carries FinishedActivity.
C7_FinishedActivityOneShot ==
    (pc \in {"delta_time_update", "maintain", "draw", "write_state", "return",
             "idle", "match", "manage_player_input", "panicked"}
     \/ (pc = "IndexReset" /\ ran = <<>>))
        => ecs.finished_activity = {}

\* C7 witness: the end of an InGame tick in which the fish bit, so the signal
\* was raised and nothing of the scheduler read it.
C7_Witness ==
    /\ TickEnd /\ current_state.kind = "InGame"
    /\ PlayerEntity \in ecs.fish_on_the_line
    /\ PlayerEntity \notin committed.fish_on_the_line

\* The phase of a system: 1 index rebuild, 2 intent consumption, 3 delete
\* condition evaluation, 4 end-of-frame clearing; 0 for the rest.
Phase(sys) ==
    CASE sys \in {"IndexReset", "IndexBlockedTiles", "IndexBreakableTiles",
                  "IndexFishableTiles"} -> 1
      [] sys \in {"SetupFishingActions", "WaitingForFishSystem", "CatchFishSystem",
                  "TileDestructionSystem", "DamageSystem"} -> 2
      [] sys \in {"TileAnimationCleanUpSystem", "RemoveDeadTiles"} -> 3
      [] sys = "run_eof_systems" -> 4
      [] OTHER -> 0
SystemsOfPhase(k) == {x \in ContinuousSet \cup {"run_eof_systems"} : Phase(x) = k}

\* C8: in every tick the systems run phase by phase: a system of a phase runs
\* only when every system of the phases before it has run, and a tick that
\* ends has run all four phases.
C8_PhasesInOrder ==
    /\ \A i \in DOMAIN ran : Phase(ran[i]) > 0 =>
          \A k \in 1 .. (Phase(ran[i]) - 1) :
              SystemsOfPhase(k) \subseteq {ran[j] : j \in 1 .. (i - 1)}
    /\ TickEnd => \A k \in 1 .. 4 : SystemsOfPhase(k) \subseteq RanSet

\* C8 witness: the end of a tick in which an entity was marked for deletion
\* by the delete condition of the fishing rod.
C8_Witness ==
    /\ pc = "run_eof_systems"
    /\ RodEntity \in ecs.deleted
    /\ PlayerEntity \in ecs.finished_activity

\* The statements that read the spatial index.
IndexConsumers == {"manage_player_input", "run_response_systems", "SetupFishingActions"}

\* C9 as claimed: whatever reads the index in a tick reads one rebuilt in
\* that tick.
C9_Claimed == (pc \in IndexConsumers) => index_built

\* C10 as claimed: the index a tick builds is the index of the components as
\* the tick before left them.
C10_Claimed == index_built => map = BuildIndex(committed)

\* The four indexing systems have just run: the next system is the first one
\* after them.
JustRebuilt == pc = "SetupFishingActions"

Rebuild(m, w) ==
    IndexFishableTiles(IndexBreakableTiles(IndexBlockedTiles(IndexReset(m), w), w), w)

C13_DamageFormula ==
    (pc = "TileAnimationSpawner" /\ Has(committed.suffer_damage, RockEntity)) =>
        LET before == committed.health_stats[RockEntity]
            q == committed.suffer_damage[RockEntity]
            after == ecs.health_stats[RockEntity]
        IN  /\ after.hp = Max(0, before.hp
                    - SumSeq([i \in 1 .. Len(q) |-> Max(0, q[i] - before.defense)]))
            /\ after.hp \in 0 .. before.hp
            /\ after.defense = before.defense

\* C13 witness: hp 10 and defense 2 with the pending amounts 5 and 3 end at
\* hp 6.
C13_Witness ==
    /\ pc = "TileAnimationSpawner"
    /\ Has(committed.suffer_damage, RockEntity)
    /\ committed.health_stats[RockEntity] = [hp |-> 10, defense |-> 2]
    /\ committed.suffer_damage[RockEntity] = <<5, 3>>
    /\ ecs.health_stats[RockEntity].hp = 6

\* An entity that has HealthStats before and after a step.
KeepsHealth(e) == Has(ecs.health_stats, e) /\ Has(ecs'.health_stats, e)

\* C14: pending damage is applied exactly once: amounts are pending only
\* between the system that queues them and the damage system of the same
\* tick, and the hp of an entity changes only in the damage system, by the
\* amounts pending for it then, after which nothing is pending.
C14_DamageAppliedOnce ==
    /\ [](pc # "DamageSystem" => ecs.suffer_damage = NoStorage)
    /\ [][\A e \in Entities :
            (KeepsHealth(e) /\ ecs'.health_stats[e].hp # ecs.health_stats[e].hp) =>
                /\ pc = "DamageSystem"
                /\ Has(ecs.suffer_damage, e)
                /\ ecs'.health_stats[e].hp =
                      Max(0, ecs.health_stats[e].hp
                             - SumSeq([i \in 1 .. Len(ecs.suffer_damage[e]) |->
                                  Max(0, ecs.suffer_damage[e][i]
                                         - ecs.health_stats[e].defense)]))
                /\ ecs'.suffer_damage = NoStorage]_vars

\* C14 witness: the damage system has taken the one pending amount from the
\* rock that was hit once before, and nothing is pending.
C14_Witness ==
    /\ pc = "TileAnimationSpawner"
    /\ RockEntity \in ecs.entities
    /\ committed.health_stats[RockEntity].hp = 1
    /\ ecs.health_stats[RockEntity].hp = 0
    /\ ecs.suffer_damage = NoStorage

\* An entity of the store whose hp is zero.
Dead(e) == e \in ecs.entities /\ Has(ecs.health_stats, e) /\ ecs.health_stats[e].hp = 0

\* C15: an entity whose hp reaches zero is not removed where the damage is
\* applied: entities leave the store only in maintain() at the end of the
\* tick, so it is there for every system that runs after the damage system;
\* after maintain() it is gone, and the index the next tick builds does not
\* list it.
C15_DeathDeferredToMaintain ==
    /\ []((\E e \in Entities : Dead(e)) =>
             ("DamageSystem" \in RanSet /\ "maintain" \notin RanSet))
    /\ [](JustRebuilt =>
             \A t \in Tiles : \A e \in Range(map.tile_entities[t]) :
                 e \in ecs.entities /\ ~Dead(e))
    /\ [][(ecs.entities \ ecs'.entities # {}) =>
             (pc = "maintain" /\ ecs.entities \ ecs'.entities = ecs.deleted)]_vars

\* C15 witness: the rock has lost its last hp in this tick and is still in
\* the store when the end-of-frame systems run.
C15_Witness ==
    /\ pc = "run_eof_systems"
    /\ Dead(RockEntity)
    /\ RockEntity \in ecs.deleted
    /\ RockEntity \in Range(map.tile_entities[ecs.position[RockEntity]])

\* The delete conditions have been evaluated in this tick and the
\* end-of-frame systems have not run yet.
AfterCleanUp == "TileAnimationCleanUpSystem" \in RanSet /\ "run_eof_systems" \notin RanSet

\* A step raises the signal only before the evaluation and clears it only
\* after; an entity with a delete condition leaves the store only in
\* maintain() and when marked, and maintain() removes every marked entity.
SignalAroundCleanUp ==
    /\ (ecs'.finished_activity \ ecs.finished_activity # {}) =>
          "TileAnimationCleanUpSystem" \notin RanSet
    /\ (ecs.finished_activity \ ecs'.finished_activity # {}) =>
          "TileAnimationCleanUpSystem" \in RanSet
    /\ \A r \in ecs.entities \ ecs'.entities :
          Has(ecs.delete_condition, r) => (pc = "maintain" /\ r \in ecs.deleted)
    /\ (pc = "maintain") => (ecs.deleted \cap ecs'.entities = {})

\* C16: an entity with the delete condition ActivityFinish(e) is removed in
\* the tick in which e carries FinishedActivity and in no other: once the
\* conditions are evaluated it is marked for deletion iff e carries the
\* signal, the signal is raised only before the evaluation and read by
\* check_player_activity and cleared only after it, the evaluation runs once
\* a tick, and the entity leaves the store in the maintain() of that tick,
\* and only when marked.
C16_ActivityFinishDeletes ==
    /\ [](AfterCleanUp =>
             \A r \in ecs.entities :
                 Has(ecs.delete_condition, r) =>
                     (r \in ecs.deleted <=> ecs.delete_condition[r] \in ecs.finished_activity))
    /\ []((pc = "check_player_activity" \/ TickEnd) =>
             Count(ran, "TileAnimationCleanUpSystem") = 1)
    /\ [][SignalAroundCleanUp]_vars

\* C16 witness: a tick that started bound to the fishing activity has found
\* it finished and maintain() has removed the fishing rod.
C16_Witness ==
    /\ pc = "draw"
    /\ current_state.kind = "ActivityBound"
    /\ finished
    /\ RodEntity \in committed.entities
    /\ RodEntity \notin ecs.entities

\* A step that puts a fish on the line of e is a step of WaitingForFishSystem
\* on an entity that waits for a fish and whose time since the last attempt
\* passes the threshold in the step, which is one attempt more made.
HookedByAnAttempt(e) ==
    (e \in ecs'.fish_on_the_line /\ e \notin ecs.fish_on_the_line) =>
        /\ pc = "WaitingForFishSystem"
        /\ Has(ecs.waiting_for_fish, e)
        /\ ecs.waiting_for_fish[e].time_since_last_attempt + delta_time >= AttemptThreshold
        /\ ~Has(ecs'.waiting_for_fish, e)

\* C17: no entity goes from idle to a fish on the line: the fish comes on the
\* line only of an entity that waits for a fish, in a step that makes an
\* attempt, and no entity waits and has a fish on the line at once.
C17_NoHookWithoutWaiting ==
    /\ [](\A e \in ecs.fish_on_the_line : ~Has(ecs.waiting_for_fish, e))
    /\ [][\A e \in Entities : HookedByAnAttempt(e)]_vars

\* C17 witness: the fish is on the player's line after the player waited
\* through a failed attempt.
C17_Witness ==
    /\ pc = "CatchFishSystem"
    /\ PlayerEntity \in ecs.fish_on_the_line
    /\ Has(committed.waiting_for_fish, PlayerEntity)
    /\ committed.waiting_for_fish[PlayerEntity].attempts >= 1

\* Some entity has a break intent on a target that is breakable by another
\* tool than the entity's.
MismatchedBreak ==
    \E e \in DOMAIN ecs.break_action :
        /\ Has(ecs.breakable, ecs.break_action[e])
        /\ ecs.breakable[ecs.break_action[e]] # ToolOf(ecs, e)

\* The rock is breakable by a tool no entity has.
RockNeedsAxe == Has(ecs.breakable, RockEntity) /\ ecs.breakable[RockEntity] = "Axe"

\* C18: a break intent on a target breakable by another tool than the
\* actor's is a no-op: the step that resolves it queues no damage, leaves
\* hp and Breakable as they are and goes on to the next system; the target
\* keeps its hp and its required tool through every tick, and every index
\* built lists its tile with that tool.
C18_ToolMismatchNoOp ==
    /\ [][(pc = "TileDestructionSystem" /\ MismatchedBreak) =>
            /\ ecs'.suffer_damage = ecs.suffer_damage
            /\ ecs'.health_stats = ecs.health_stats
            /\ ecs'.breakable = ecs.breakable
            /\ pc' = "DamageSystem"]_vars
    /\ []((Has(committed.breakable, RockEntity)
            /\ committed.breakable[RockEntity] = "Axe") =>
            /\ RockNeedsAxe
            /\ RockEntity \in ecs.entities
            /\ ecs.health_stats[RockEntity] = InitEcs.health_stats[RockEntity]
            /\ JustRebuilt =>
                  /\ Has(map.breakable, ecs.position[RockEntity])
                  /\ map.breakable[ecs.position[RockEntity]] = "Axe")

\* C18 witness: the player's break intent on the rock that needs an axe has
\* been resolved in a turn the player spent on it, and the rock has its hp.
C18_Witness ==
    /\ pc = "DamageSystem"
    /\ RockNeedsAxe
    /\ response = TurnAdvance
    /\ ecs.position[PlayerEntity] = committed.position[PlayerEntity]
    /\ PlayerEntity \notin committed.fish_on_the_line
    /\ ecs.break_action = NoStorage
    /\ ecs.suffer_damage = NoStorage
    /\ ecs.health_stats[RockEntity] = InitEcs.health_stats[RockEntity]

\* The tile the rock was placed on.
RockTile == InitEcs.position[RockEntity]

\* A step never gives hp back, never brings a removed breakable entity back,
\* and the maintain() of a tick removes a breakable entity iff its hp is zero.
BreakDamageStays ==
    /\ \A e \in Entities : KeepsHealth(e) => ecs'.health_stats[e].hp <= ecs.health_stats[e].hp
    /\ (RockEntity \notin ecs.entities) => (RockEntity \notin ecs'.entities)
    /\ (pc = "maintain" /\ RockEntity \in ecs.entities) =>
          (RockEntity \notin ecs'.entities <=> ecs.health_stats[RockEntity].hp = 0)

NoIntents == ecs.fish_action = NoStorage /\ ecs.break_action = NoStorage

\* C20: an action intent lives for one turn: no fish intent is left once the
\* fishing systems have run, no break intent once the mining system has run,
\* and none of either from the end of the continuous systems of a tick to the
\* player input of the next, a rejected intent included.
C20_IntentsConsumedInTick ==
    /\ ("CatchFishSystem" \in RanSet) => (ecs.fish_action = NoStorage)
    /\ ("TileDestructionSystem" \in RanSet) => (ecs.break_action = NoStorage)
    /\ (pc \in {"idle", "match", "manage_player_input"} \/ TickEnd) => NoIntents

\* C20 witness: the end of a tick in which the player's break intent on the
\* rock that needs an axe was rejected: no intent is left.
C20_Witness ==
    /\ TickEnd
    /\ RockNeedsAxe
    /\ response = TurnAdvance
    /\ ecs.position[PlayerEntity] = committed.position[PlayerEntity]
    /\ PlayerEntity \notin committed.fish_on_the_line
    /\ NoIntents

\* C23: positions and tile indices convert into each other without loss: a
\* position whose x is less than the width has the index y * width + x and
\* comes back from it unchanged, and an index comes back unchanged from the
\* position it gives.
C23_IdxRoundTrip ==
    /\ (call.value.type = "Position" /\ Len(ret) >= 1) =>
          ret[1] = TileIdx(call.value.y * call.width + call.value.x)
    /\ (call.value.type = "Position" /\ call.value.x < call.width /\ Len(ret) >= 2) =>
          ret[2] = call.value
    /\ (call.value.type = "idx" /\ Len(ret) >= 2) =>
          (ret[1].type = "Position" /\ ret[2] = call.value)

\* C23 witness: the position (2, 3) on a map 3 wide has gone to the index 11
\* and back.
C23_Witness ==
    /\ call = [fn |-> "Position", width |-> 3, value |-> PositionNew(2, 3)]
    /\ ret = <<TileIdx(11), PositionNew(2, 3)>>

\* C24 as claimed: a point without a negative coordinate becomes the
\* position with the same coordinates, and the conversion of a point with a
\* negative coordinate gives no position.
C24_Claimed ==
    (call.value.type = "Point" /\ Len(ret) >= 1) =>
        IF call.value.x >= 0 /\ call.value.y >= 0
        THEN ret[1] = PositionNew(call.value.x, call.value.y)
        ELSE ret[1].type # "Position"

\* The sum of the quantities added for an item id so far.
SumAdded(item_id) ==
    SumSeq([i \in 1 .. Len(added) |->
               IF added[i].item_id = item_id THEN added[i].qty ELSE 0])
\* The item ids added so far.
IdsAdded == {added[i].item_id : i \in 1 .. Len(added)}

\* C25: after any adds to an empty backpack the quantity held for an id is
\* the sum of the quantities added for it, every add returned true, an id is
\* contained iff that sum is above zero, and len() is the number of ids
\* added, an id added with quantity 0 only among them.
C25_BackpackSums ==
    /\ DOMAIN backpack = IdsAdded
    /\ \A id \in IdsAdded : backpack[id] = SumAdded(id)
    /\ \A id \in ItemIds : contains(backpack, id) <=> SumAdded(id) > 0
    /\ len(backpack) = Cardinality(IdsAdded)
    /\ Len(ret) = Len(added)
    /\ \A i \in 1 .. Len(ret) : ret[i] = TRUE

\* C25 witness: id 1 was added with quantity 0 only and id 2 twice: two ids
\* are held, id 1 is not contained, id 2 is held three times.
C25_Witness ==
    /\ added = << [item_id |-> 1, qty |-> 0], [item_id |-> 2, qty |-> 1],
                  [item_id |-> 2, qty |-> 2] >>
    /\ len(backpack) = 2
    /\ ~contains(backpack, 1)
    /\ contains(backpack, 2)
    /\ backpack[2] = 3

\* A call of a content function was made and is over.
Called(fn) == call.fn = fn /\ Len(ret) = 1

\* C21 as claimed: no call that meets a being with the goal ai and no goals,
\* or a name that is not in the item table, panics.
C21_Claimed == (Called("build_being") \/ Called("contains_named")) => ret[1].kind # "panic"

\* The entities the call of build_being added to the World.
NewEntities == world.entities \ call.world.entities

\* C22 as claimed: build_being with a name that is not in the being table
\* returns Err and leaves the World as it was; with a name that is in the
\* table it returns Ok with one new entity that has the name, the position
\* given and a Renderable.
C22_Claimed ==
    Called("build_being") =>
        IF get_by_name(edb.beings, call.name).some
        THEN /\ ret[1].kind = "Ok"
             /\ Cardinality(NewEntities) = 1
             /\ \A e \in NewEntities :
                   /\ e.id = ret[1].entity
                   /\ e.name = Some(call.name)
                   /\ e.position = Some(call.pos)
                   /\ e.renderable.some
        ELSE /\ ret[1] = Err
             /\ world = call.world

\* C26: a tick that starts in ActivityBound does not ask for the player's
\* input and stores InGame or ActivityBound, never InMenu: InGame iff the
\* player's activity reported finished.
C26_ActivityBoundLeftOnlyByFinish ==
    /\ (current_state.kind = "ActivityBound") =>
          /\ pc # "manage_player_input"
          /\ "manage_player_input" \notin RanSet
          /\ response = NoResponse
          /\ new_state.kind \in {"InGame", "ActivityBound"}
    /\ (TickEnd /\ current_state.kind = "ActivityBound") =>
          /\ app_state.kind \in {"InGame", "ActivityBound"}
          /\ (app_state.kind = "InGame") <=> finished

\* C26 witness: a tick that started in ActivityBound ends in InGame, the fish
\* on the player's line.
C26_Witness ==
    /\ TickEnd
    /\ current_state.kind = "ActivityBound"
    /\ app_state = InGame
    /\ PlayerEntity \in ecs.fish_on_the_line

\* A step stores InMenu only at the end of an InGame tick whose input asked
\* for it, and never stores another state over InMenu.
InMenuStoredOnRequest ==
    /\ (app_state # InMenu /\ app_state' = InMenu) =>
          /\ pc = "write_state"
          /\ current_state = InGame
          /\ response = StateChange(InMenu)
    /\ (app_state = InMenu) => (app_state' = InMenu)

\* C27: from InGame the stored state becomes InMenu only by a tick that
\* started in InGame and whose input asked for InMenu; a tick that starts
\* in InMenu stops at the match, having run no system and written no state,
\* and InMenu stays stored for ever.
C27_InMenuOnlyByRequestNeverLeft ==
    /\ [][InMenuStoredOnRequest]_vars
    /\ []((current_state.kind = "InMenu") =>
             (pc \in {"match", "panicked"} /\ ran = <<>> /\ app_state = InMenu))

\* C27 witness: the tick after InMenu was stored has panicked.
C27_Witness ==
    /\ pc = "panicked"
    /\ app_state = InMenu
    /\ current_state = InMenu

====
